---------------------------- MODULE Spec2Model ----------------------------
(***************************************************************************)
(* Model of poll_430.py: the polling loop of main(), the stages of         *)
(* one_cycle() and the state dict they mutate (stops, predictions,         *)
(* stopStats, lastUpdated).                                                *)
(*                                                                         *)
(* Conventions.  A Python value that may be None / a missing dict key is   *)
(* a sequence of length 0 (absent) or 1 (present): <<>> or <<v>>.  A dict  *)
(* is a function whose DOMAIN is its key set.  Timestamps are integer      *)
(* seconds counted from the instant main() starts.  Feed fields are typed  *)
(* as the feed documents them (integer timeToStation, ISO expectedArrival) *)
(* so int() and parse_iso() are total on present fields; a field is either *)
(* present with a value of its type or missing.                            *)
(***************************************************************************)
EXTENDS Integers, Sequences, FiniteSets, TLC

VARIABLES
    pc,           \* position in main()/one_cycle()
    clock,        \* what now_ts() returns at this instant
    cycles,       \* number of one_cycle() calls started so far
    arrivals,     \* one_cycle's local: the fetched, direction-filtered feed
    stops,        \* state["stops"]
    predictions,  \* state["predictions"]
    stopStats,    \* state["stopStats"]
    lastUpdated,  \* state["lastUpdated"]
    ts,           \* update_predictions' local ts (last value read)
    ts_now,       \* detect_arrivals_and_score's local ts_now (last value read)
    nextId,       \* identity of the next prediction dict to be allocated
    lookups,      \* fetch_stop_point calls issued in this cycle, per stop
    disk,         \* content of STATE_PATH
    env,          \* the environment of this run
    geojson,      \* content of GEOJSON_OUT
    log,          \* what main() has printed: one line per one_cycle call
    entry         \* stops, predictions and stopStats as they were when the
                  \* current one_cycle call began

vars == <<pc, clock, cycles, arrivals, stops, predictions, stopStats,
          lastUpdated, ts, ts_now, nextId, lookups, disk, env, geojson, log,
          entry>>

-----------------------------------------------------------------------------
(* Program constants *)

POLL_SECONDS == 60
ARRIVAL_TTS_SEC == 30
PREDICTION_MAX_AGE_SEC == 1500
PHANTOM_GRACE_SEC == 360

(* Bounds of the model *)

MaxCycles == 2
MaxFeed == 2

-----------------------------------------------------------------------------
(* The environment: feed records, elapsed times, lookup outcomes *)

\* fetch_stop_point raises (ok = FALSE) or returns the stop's JSON.
LookupFail == [ok |-> FALSE, lat |-> <<>>, lon |-> <<>>, commonName |-> <<>>]
LookupOk ==
    [ok |-> TRUE, lat |-> <<51>>, lon |-> <<0>>, commonName |-> <<"Common">>]

\* A feed record as the feed reports it, with expectedArrival given as its
\* distance (lag) from the instant of the fetch.
Rec(s, v, t, lag) ==
    [naptanId |-> <<s>>, vehicleId |-> <<v>>, timeToStation |-> <<t>>,
     lag |-> <<lag>>]

Far(s, v)  == Rec(s, v, 300, 300)     \* five minutes away
Near(s, v) == Rec(s, v, 8, 10)        \* arriving now
Long(s, v) == Rec(s, v, 1200, 1200)   \* twenty minutes away
Late(s, v) == Rec(s, v, -5, -5)       \* due five seconds ago
AtThreshold(s, v)   == Rec(s, v, 30, 30)
OverThreshold(s, v) == Rec(s, v, 31, 31)

\* An environment fixes what the feed may report (records), how long the
\* loop may take to come round (deltas: time.sleep(POLL_SECONDS) plus what
\* the cycle itself took), how many seconds may pass between
\* update_predictions' and detect_arrivals_and_score's reads of the clock
\* (skews), and what fetch_stop_point may answer (lookups).
Env(records, deltas, skews, lookupResults) ==
    [records |-> records, deltas |-> deltas, skews |-> skews,
     lookups |-> lookupResults]

\* One vehicle approaching one stop.
EnvApproach ==
    Env({Far("s1", "v1"), Near("s1", "v1")}, {290}, {0, 1}, {LookupOk})

\* Several vehicles and stops, all arriving.
EnvFleet ==
    Env({Near("s1", "v1"), Near("s1", "v2"), Near("s2", "v1")},
        {290}, {0}, {LookupOk})

\* Two forecasts a second apart, and the cycle that comes round when the
\* grace period of the later one ends.
EnvGrace ==
    Env({Rec("s1", "v1", 60, 60), Rec("s1", "v1", 59, 59)},
        {420}, {0, 1}, {LookupOk})

\* A vehicle that arrives long after its forecast.
EnvOverdue ==
    Env({Far("s1", "v1"), Near("s1", "v1")}, {1210}, {0}, {LookupOk})

\* Cycles that come round at the retention age.
EnvAging ==
    Env({Near("s1", "v1"), Long("s2", "v1")}, {1500}, {0, 1}, {LookupOk})

\* A vehicle past its due time.
EnvLate ==
    Env({Far("s1", "v1"), Late("s1", "v1")}, {290}, {0}, {LookupOk})

\* Vehicles at and just over the arrival threshold.
EnvThreshold ==
    Env({AtThreshold("s1", "v1"), OverThreshold("s1", "v2")},
        {290}, {0}, {LookupOk})

\* Feed records that lack a field.
NoExpectedArrival(s, v) ==
    [naptanId |-> <<s>>, vehicleId |-> <<v>>, timeToStation |-> <<8>>,
     lag |-> <<>>]
NoVehicleId(s) ==
    [naptanId |-> <<s>>, vehicleId |-> <<>>, timeToStation |-> <<8>>,
     lag |-> <<10>>]
NoTimeToStation(s, v) ==
    [naptanId |-> <<s>>, vehicleId |-> <<v>>, timeToStation |-> <<>>,
     lag |-> <<10>>]
NoNaptanId(v) ==
    [naptanId |-> <<>>, vehicleId |-> <<v>>, timeToStation |-> <<8>>,
     lag |-> <<10>>]

\* A forecast, and a record of the same vehicle without expectedArrival.
EnvNoExpected ==
    Env({Far("s1", "v1"), NoExpectedArrival("s1", "v1")},
        {290}, {0}, {LookupOk})

\* An arriving vehicle among records that lack a stop, a vehicle or a
\* time to station.
EnvMalformed ==
    Env({Near("s1", "v1"), NoVehicleId("s2"), NoTimeToStation("s1", "v1"),
         NoNaptanId("v1")},
        {290}, {0}, {LookupOk})

\* Stop lookups that may fail.
EnvFlaky ==
    Env({Near("s1", "v1"), Rec("s2", "v1", 60, 60)}, {430}, {0},
        {LookupOk, LookupFail})

\* Writes to the disk that may fail.
EnvDiskFault ==
    Env({Near("s1", "v1")}, {290, 300}, {0}, {LookupOk})

Envs ==
    {EnvApproach, EnvFleet, EnvGrace, EnvOverdue, EnvAging, EnvLate,
     EnvThreshold, EnvNoExpected, EnvMalformed, EnvFlaky, EnvDiskFault}

StopIds == {"s1", "s2"}

\* The feed record of template r fetched at instant c.
Obs(r, c) ==
    [naptanId |-> r.naptanId, vehicleId |-> r.vehicleId,
     timeToStation |-> r.timeToStation,
     expectedArrival |-> IF r.lag = <<>> THEN <<>> ELSE <<c + r.lag[1]>>,
     stationName |-> <<"Station">>]

FeedRecords(e, c) == {Obs(r, c) : r \in e.records}

Feeds(e, c) == UNION {[1..n -> FeedRecords(e, c)] : n \in 0..MaxFeed}

-----------------------------------------------------------------------------
(* dict helpers *)

Get(d, k, default) == IF k \in DOMAIN d THEN d[k] ELSE default

Put(d, k, v) == [x \in DOMAIN d \cup {k} |-> IF x = k THEN v ELSE d[x]]

EmptyDict == [x \in {} |-> 0]

-----------------------------------------------------------------------------
(* load_state: no state file yet *)

EmptyState ==
    [lastUpdated |-> <<>>, stops |-> EmptyDict, predictions |-> EmptyDict,
     stopStats |-> EmptyDict]

Init ==
    /\ pc = "fetch"
    /\ clock = 0
    /\ cycles = 1
    /\ arrivals = <<>>
    /\ stops = EmptyState.stops
    /\ predictions = EmptyState.predictions
    /\ stopStats = EmptyState.stopStats
    /\ lastUpdated = EmptyState.lastUpdated
    /\ ts = 0
    /\ ts_now = 0
    /\ nextId = 1
    /\ lookups = [s \in StopIds |-> 0]
    /\ disk = <<>>
    /\ env \in Envs
    /\ geojson = <<>>
    /\ log = <<>>
    /\ entry = [stops |-> EmptyState.stops,
                predictions |-> EmptyState.predictions,
                stopStats |-> EmptyState.stopStats]


-----------------------------------------------------------------------------
(* ensure_stop_metadata *)

\* An ensure_stop_metadata without the test of lines 39-41.
ResolvedNever(st) == FALSE

Resolved(st) == st # <<>> /\ st[1].lat # <<>> /\ st[1].lon # <<>>

HintName(a) ==
    IF a.stationName # <<>> THEN a.stationName[1] ELSE a.naptanId[1]

Stub(a) == [lat |-> <<>>, lon |-> <<>>, name |-> HintName(a)]

\* A lookup whose failure wipes the name of the entry.
ApplyLookupOrWipe(st, r) ==
    IF ~r.ok THEN [st EXCEPT !.name = ""]
    ELSE [lat |-> r.lat, lon |-> r.lon,
          name |-> IF r.commonName # <<>> THEN r.commonName[1] ELSE st.name]

\* The try block: fetch_stop_point's result r written into the entry.
ApplyLookup(st, r) ==
    IF ~r.ok THEN st
    ELSE [lat |-> r.lat, lon |-> r.lon,
          name |-> IF r.commonName # <<>> THEN r.commonName[1] ELSE st.name]

\* The loop over arrivals from index i on; outcomes[i] is what the lookup
\* for arrivals[i] returns if it is issued.  Yields <<stops, lookups>>.
RECURSIVE EnsureFrom(_, _, _, _, _)
EnsureFrom(sm, lk, arr, i, outcomes) ==
    IF i > Len(arr) THEN <<sm, lk>>
    ELSE LET a == arr[i] IN
         IF a.naptanId = <<>> THEN EnsureFrom(sm, lk, arr, i + 1, outcomes)
         ELSE LET stop_id == a.naptanId[1]
                  st == Get(sm, stop_id, <<>>)
              IN IF Resolved(st) THEN EnsureFrom(sm, lk, arr, i + 1, outcomes)
                 ELSE LET stub == IF st = <<>> THEN Stub(a) ELSE st[1]
                          sm2 == Put(sm, stop_id,
                                     <<ApplyLookup(stub, outcomes[i])>>)
                          lk2 == [lk EXCEPT ![stop_id] = @ + 1]
                      IN EnsureFrom(sm2, lk2, arr, i + 1, outcomes)

-----------------------------------------------------------------------------
(* update_predictions *)

\* Line 119: the record is ingested only if all four fields are present.
Ingestible(a) ==
    /\ a.naptanId # <<>>
    /\ a.vehicleId # <<>>
    /\ a.timeToStation # <<>>
    /\ a.expectedArrival # <<>>

\* Lines 122-128: the new record; id stands for the dict's identity.
NewPrediction(a, now, id) ==
    [id |-> id,
     vehicleId |-> a.vehicleId[1],
     predictionTs |-> now,
     timeToStation |-> a.timeToStation[1],
     expectedArrivalTs |-> a.expectedArrival[1],
     matched |-> FALSE,
     phantom |-> FALSE,
     actualArrivalTs |-> <<>>,
     driftSec |-> <<>>]

\* An ingest that skips a vehicle which already has an open prediction.
AppendPredictionDedup(preds, a, now, id) ==
    LET ps == IF a.naptanId[1] \in DOMAIN preds
              THEN preds[a.naptanId[1]] ELSE <<>>
    IN IF \E k \in 1..Len(ps) :
             (~ps[k].matched) /\ ps[k].vehicleId = a.vehicleId[1]
       THEN preds
       ELSE [x \in DOMAIN preds \cup {a.naptanId[1]} |->
                IF x = a.naptanId[1]
                THEN Append(ps, NewPrediction(a, now, id)) ELSE preds[x]]

\* Line 129 for one arrival: setdefault(stop_id, []).append(rec).
AppendPrediction(preds, a, now, id) ==
    Put(preds, a.naptanId[1],
        Append(Get(preds, a.naptanId[1], <<>>), NewPrediction(a, now, id)))

\* Lines 113-129: the ingest loop from index i on.
RECURSIVE IngestFrom(_, _, _, _, _)
IngestFrom(preds, arr, i, now, id) ==
    IF i > Len(arr) THEN preds
    ELSE IF Ingestible(arr[i])
         THEN IngestFrom(AppendPrediction(preds, arr[i], now, id),
                         arr, i + 1, now, id + 1)
         ELSE IngestFrom(preds, arr, i + 1, now, id)

NumIngestible(arr) == Cardinality({i \in 1..Len(arr) : Ingestible(arr[i])})

\* A retention test that also drops the records made in this call.
FreshButNotNew(p, now) ==
    now - p.predictionTs <= PREDICTION_MAX_AGE_SEC /\ now - p.predictionTs > 0

\* Pruning with the comparison one second off, either way.
FreshOneMore(p, now) == now - p.predictionTs <= PREDICTION_MAX_AGE_SEC + 1
FreshStrict(p, now) == now - p.predictionTs < PREDICTION_MAX_AGE_SEC

\* Lines 135-136: the record survives pruning.
Fresh(p, now) == now - p.predictionTs <= PREDICTION_MAX_AGE_SEC

\* Lines 132-141: prune old predictions, drop stops left without any.
Prune(preds, now) ==
    LET kept(s) == SelectSeq(preds[s], LAMBDA p : Fresh(p, now))
        live == {s \in DOMAIN preds : kept(s) # <<>>}
    IN [s \in live |-> kept(s)]

-----------------------------------------------------------------------------
(* detect_arrivals_and_score *)

\* Line 163: the record enters the (stop, vehicle) index.
Indexable(a) ==
    /\ a.naptanId # <<>>
    /\ a.vehicleId # <<>>
    /\ a.timeToStation # <<>>

\* Lines 158-164: curr, as the sequence of its items in dict order: a key
\* keeps the position of its first insertion and the value of its last.
RECURSIVE IndexFrom(_, _, _)
IndexFrom(curr, arr, i) ==
    IF i > Len(arr) THEN curr
    ELSE LET a == arr[i] IN
         IF ~Indexable(a) THEN IndexFrom(curr, arr, i + 1)
         ELSE LET e == [stop |-> a.naptanId[1], veh |-> a.vehicleId[1],
                        tts |-> a.timeToStation[1]]
                  at == {k \in 1..Len(curr) :
                            curr[k].stop = e.stop /\ curr[k].veh = e.veh}
              IN IF at = {} THEN IndexFrom(Append(curr, e), arr, i + 1)
                 ELSE IndexFrom([k \in 1..Len(curr) |->
                                    IF k \in at THEN e ELSE curr[k]],
                                arr, i + 1)

\* An index that keeps one item per feed record.
IndexArrivalsPerRecord(arr) ==
    LET keep == SelectSeq(arr, Indexable)
    IN [k \in 1..Len(keep) |->
           [stop |-> keep[k].naptanId[1], veh |-> keep[k].vehicleId[1],
            tts |-> keep[k].timeToStation[1]]]

\* Lines 158-164.
IndexArrivals(arr) == IndexFrom(<<>>, arr, 1)

\* Line 168 negated: the vehicle is "arriving now".
Arriving(tts) == tts <= ARRIVAL_TTS_SEC

\* A matcher that forgets to look at the matched flag.
IsCandidateAnyStatus(p, veh_id) == p.vehicleId = veh_id

\* Line 175.
IsCandidate(p, veh_id) == (~p.matched) /\ p.vehicleId = veh_id

\* A matcher whose scan does not stop at the first candidate.
FindCandidateNewest(preds, veh_id) ==
    LET hits == {k \in 1..Len(preds) :
                    (~preds[k].matched) /\ preds[k].vehicleId = veh_id}
    IN IF hits = {} THEN 0
       ELSE CHOOSE k \in hits : \A j \in hits : k >= j

\* Lines 173-177: index of the candidate in preds, 0 for None.
FindCandidate(preds, veh_id) ==
    LET hits == {k \in 1..Len(preds) : IsCandidate(preds[k], veh_id)}
    IN IF hits = {} THEN 0
       ELSE CHOOSE k \in hits : \A j \in hits : k <= j

Max0(x) == IF x > 0 THEN x ELSE 0

\* Line 182.
ActualArrivalTs(now, tts) == now + Max0(tts)

\* A drift measured against the feed's expectedArrival.
DriftSecFromExpected(candidate, actual_arr_ts) ==
    candidate.expectedArrivalTs - actual_arr_ts

\* Lines 183-184.
DriftSec(candidate, actual_arr_ts) ==
    (candidate.predictionTs + candidate.timeToStation) - actual_arr_ts

\* Lines 186-188.
MarkMatched(p, actual_arr_ts, drift_sec) ==
    [p EXCEPT !.matched = TRUE,
              !.actualArrivalTs = <<actual_arr_ts>>,
              !.driftSec = <<drift_sec>>]

ZeroStats == [samples |-> 0, sumDriftSec |-> 0, phantoms |-> 0]

\* A match that starts the stop's statistics afresh.
RecordMatchAfresh(stats, stop_id, drift_sec) ==
    Put(stats, stop_id,
        [samples |-> 1, sumDriftSec |-> drift_sec, phantoms |-> 0])

\* Lines 190-196.
RecordMatch(stats, stop_id, drift_sec) ==
    LET s == Get(stats, stop_id, ZeroStats)
    IN Put(stats, stop_id,
           [s EXCEPT !.samples = @ + 1, !.sumDriftSec = @ + drift_sec])

\* Lines 167-196: the matching loop over curr from index i on.
\* Yields <<predictions, stopStats>>.
RECURSIVE MatchFrom(_, _, _, _, _)
MatchFrom(preds, stats, curr, i, now) ==
    IF i > Len(curr) THEN <<preds, stats>>
    ELSE LET e == curr[i]
             ps == Get(preds, e.stop, <<>>)
             k == FindCandidate(ps, e.veh)
         IN IF ~Arriving(e.tts) \/ k = 0
            THEN MatchFrom(preds, stats, curr, i + 1, now)
            ELSE LET actual == ActualArrivalTs(now, e.tts)
                     drift == DriftSec(ps[k], actual)
                     preds2 == [preds EXCEPT ![e.stop][k] =
                                    MarkMatched(@, actual, drift)]
                 IN MatchFrom(preds2, RecordMatch(stats, e.stop, drift),
                              curr, i + 1, now)

\* A reaper with a non-strict comparison.
OverdueAtGrace(p, now) == now >= p.expectedArrivalTs + PHANTOM_GRACE_SEC

\* Line 204.
Overdue(p, now) == now > p.expectedArrivalTs + PHANTOM_GRACE_SEC

\* A reaper that forgets to skip matched records.
ReapedAnyStatus(p, now) ==
    now > p.expectedArrivalTs + PHANTOM_GRACE_SEC

\* Lines 202-204: the record is reaped.
Reaped(p, now) == (~p.matched) /\ Overdue(p, now)

\* Lines 205-206.
MarkPhantom(p) == [p EXCEPT !.matched = TRUE, !.phantom = TRUE]

\* Lines 199-207 on the ledger.
ReapPredictions(preds, now) ==
    [s \in DOMAIN preds |->
        [k \in 1..Len(preds[s]) |->
            IF Reaped(preds[s][k], now) THEN MarkPhantom(preds[s][k])
            ELSE preds[s][k]]]

\* A reaper that keeps statistics only for the stops of the ledger.
ReapStatsOfLedger(stats, preds, now) ==
    [s \in DOMAIN preds |->
        LET base == Get(stats, s, ZeroStats) IN
        [base EXCEPT !.phantoms = @ +
            Cardinality({k \in 1..Len(preds[s]) : Reaped(preds[s][k], now)})]]

\* A reaper that creates the statistics only when it counts a phantom.
ReapStatsLazy(stats, preds, now) ==
    LET n(s) == IF s \in DOMAIN preds
                THEN Cardinality({k \in 1..Len(preds[s]) :
                        (~preds[s][k].matched) /\ now >
                           preds[s][k].expectedArrivalTs + PHANTOM_GRACE_SEC})
                ELSE 0
    IN [s \in DOMAIN stats \cup {x \in DOMAIN preds : n(x) > 0} |->
           IF s \in DOMAIN stats
           THEN [stats[s] EXCEPT !.phantoms = @ + n(s)]
           ELSE [samples |-> 0, sumDriftSec |-> 0, phantoms |-> n(s)]]

\* Lines 199-207 on the statistics: setdefault for every stop of the
\* ledger, then one increment per reaped record.
ReapStats(stats, preds, now) ==
    [s \in DOMAIN stats \cup DOMAIN preds |->
        LET base == Get(stats, s, ZeroStats) IN
        IF s \in DOMAIN preds
        THEN [base EXCEPT !.phantoms = @ +
                 Cardinality({k \in 1..Len(preds[s]) :
                                 Reaped(preds[s][k], now)})]
        ELSE base]

-----------------------------------------------------------------------------
(* bias_color and export_geojson *)

\* The quotient num / den of Python's true division, kept exact.  A zero
\* den is the division that raises ZeroDivisionError.
Quotient(num, den) == [num |-> num, den |-> den]

Max1(n) == IF n > 1 THEN n ELSE 1

\* Line 226: the default of stopStats.get.
NoStats == [samples |-> 0, sumDriftSec |-> 0, phantoms |-> 0]

\* Line 228.
BiasSec(st) ==
    IF st.samples > 0 THEN Quotient(st.sumDriftSec, st.samples)
    ELSE Quotient(0, 1)

\* Line 229, with the denominator written without max(1, ...).
PhantomRateUnguarded(st) == Quotient(st.phantoms, st.samples + st.phantoms)

\* Line 229.
PhantomRate(st) == Quotient(st.phantoms, Max1(st.samples + st.phantoms))

Abs(n) == IF n < 0 THEN -n ELSE n

\* Lines 210-216, for a quotient with a positive den.
bias_color(bias_sec) ==
    LET a == Abs(bias_sec.num) IN
    IF a < 60 * bias_sec.den THEN "#00ff00"
    ELSE IF a < 180 * bias_sec.den THEN "#f1c40f"
    ELSE "ff0000"

\* Lines 223-224: the stops that get a feature.
Exported(sm) == {s \in DOMAIN sm : Resolved(sm[s])}

\* Lines 226-246: the feature of one stop.  bias_sec and phantom_rate are
\* the values of lines 228-229, which lines 239 and 241 pass to round().
Feature(stop_id, stop, stats) ==
    LET st == Get(stats, stop_id, NoStats)
        bias_sec == BiasSec(st)
        phantom_rate == PhantomRate(st)
    IN [stopId |-> stop_id, name |-> stop.name, lon |-> stop.lon[1],
        lat |-> stop.lat[1], bias_sec |-> bias_sec, samples |-> st.samples,
        phantom_rate |-> phantom_rate,
        color |-> IF bias_sec.den = 0 THEN "" ELSE bias_color(bias_sec)]

Features(sm, stats) == [s \in Exported(sm) |-> Feature(s, sm[s][1], stats)]

\* A division of lines 228-229 raises.
DivisionRaises(fs) ==
    \E s \in DOMAIN fs : fs[s].bias_sec.den = 0 \/ fs[s].phantom_rate.den = 0

\* The environments in which writing GEOJSON_OUT or STATE_PATH may fail.
DiskFaultEnvs == {EnvDiskFault}

\* What a save_state that raises leaves in STATE_PATH: the old content if
\* open() raised, a truncated file if json.dump raised (load_state reads a
\* truncated file as it reads a missing one, lines 76-80).
DiskAfterFailedSave(d) == {d, <<>>}

\* The value of state's three collections.
Memory == [stops |-> stops, predictions |-> predictions,
           stopStats |-> stopStats]

-----------------------------------------------------------------------------
(* main and one_cycle *)

\* Line 261, the request succeeds; line 262: arrivals is the feed after
\* filter_direction, i.e. the records of the configured direction.
FetchArrivals ==
    /\ pc = "fetch"
    /\ \E feed \in Feeds(env, clock) : arrivals' = feed
    /\ lookups' = [s \in StopIds |-> 0]
    /\ pc' = "fetched"
    /\ entry' = Memory
    /\ UNCHANGED <<clock, cycles, stops, predictions, stopStats, lastUpdated,
                   ts, ts_now, nextId, disk, env, geojson, log>>

\* A main() without the try of lines 276-280: the error ends the program.
FetchFailsUncaught ==
    /\ pc = "fetch"
    /\ entry' = Memory
    /\ log' = Append(log, "error")
    /\ pc' = "stopped"
    /\ UNCHANGED <<clock, cycles, arrivals, stops, predictions, stopStats,
                   lastUpdated, ts, ts_now, nextId, lookups, disk, env,
                   geojson>>

\* Line 261 raises; lines 279-280 catch it.
FetchFails ==
    /\ pc = "fetch"
    /\ entry' = Memory
    /\ log' = Append(log, "error")
    /\ pc' = "sleep"
    /\ UNCHANGED <<clock, cycles, arrivals, stops, predictions, stopStats,
                   lastUpdated, ts, ts_now, nextId, lookups, disk, env,
                   geojson>>

\* Line 264.
EnsureStopMetadata ==
    /\ pc = "fetched"
    /\ \E outcomes \in [1..Len(arrivals) -> env.lookups] :
          LET r == EnsureFrom(stops, lookups, arrivals, 1, outcomes)
          IN stops' = r[1] /\ lookups' = r[2]
    /\ pc' = "ensured"
    /\ UNCHANGED <<clock, cycles, arrivals, predictions, stopStats,
                   lastUpdated, ts, ts_now, nextId, disk, env,
                   geojson, log, entry>>

\* Line 265.
UpdatePredictions ==
    /\ pc = "ensured"
    /\ ts' = clock
    /\ predictions' = Prune(IngestFrom(predictions, arrivals, 1, clock, nextId),
                            clock)
    /\ nextId' = nextId + NumIngestible(arrivals)
    /\ \E k \in env.skews : clock' = clock + k
    /\ pc' = "ingested"
    /\ UNCHANGED <<cycles, arrivals, stops, stopStats, lastUpdated, ts_now,
                   lookups, disk, env,
                   geojson, log, entry>>

\* Line 266, lines 153-196.
MatchArrivals ==
    /\ pc = "ingested"
    /\ ts_now' = clock
    /\ LET r == MatchFrom(predictions, stopStats, IndexArrivals(arrivals), 1,
                          clock)
       IN predictions' = r[1] /\ stopStats' = r[2]
    /\ pc' = "matched"
    /\ UNCHANGED <<clock, cycles, arrivals, stops, lastUpdated, ts, nextId,
                   lookups, disk, env,
                   geojson, log, entry>>

\* Line 266, lines 198-207.
ReapPhantoms ==
    /\ pc = "matched"
    /\ predictions' = ReapPredictions(predictions, ts_now)
    /\ stopStats' = ReapStats(stopStats, predictions, ts_now)
    /\ pc' = "scored"
    /\ UNCHANGED <<clock, cycles, arrivals, stops, lastUpdated, ts, ts_now,
                   nextId, lookups, disk, env,
                   geojson, log, entry>>

\* Line 267: the features are computed and GEOJSON_OUT is written; a
\* division that raises ends the cycle in the handler of lines 279-280.
ExportGeojson ==
    /\ pc = "scored"
    /\ LET fs == Features(stops, stopStats) IN
       IF DivisionRaises(fs)
       THEN /\ log' = Append(log, "error")
            /\ pc' = "sleep"
            /\ UNCHANGED geojson
       ELSE /\ geojson' = <<fs>>
            /\ pc' = "exported"
            /\ UNCHANGED log
    /\ UNCHANGED <<clock, cycles, arrivals, stops, predictions, stopStats,
                   lastUpdated, ts, ts_now, nextId, lookups, disk, env,
                   entry>>

\* A handler that puts back the collections as the cycle found them.
ExportFailsRolledBack ==
    /\ pc = "scored"
    /\ env \in DiskFaultEnvs
    /\ log' = Append(log, "error")
    /\ pc' = "sleep"
    /\ stops' = entry.stops
    /\ predictions' = entry.predictions
    /\ stopStats' = entry.stopStats
    /\ UNCHANGED <<clock, cycles, arrivals, lastUpdated, ts, ts_now, nextId,
                   lookups, disk, env, geojson, entry>>

\* Line 267, the write of line 256 raises; lines 279-280 catch it.
ExportFails ==
    /\ pc = "scored"
    /\ env \in DiskFaultEnvs
    /\ log' = Append(log, "error")
    /\ pc' = "sleep"
    /\ UNCHANGED <<clock, cycles, arrivals, stops, predictions, stopStats,
                   lastUpdated, ts, ts_now, nextId, lookups, disk, env,
                   geojson, entry>>

\* Lines 269-270, then line 278.
SaveState ==
    /\ pc = "exported"
    /\ lastUpdated' = <<clock>>
    /\ disk' = <<[lastUpdated |-> <<clock>>, stops |-> stops,
                  predictions |-> predictions, stopStats |-> stopStats]>>
    /\ log' = Append(log, "wrote")
    /\ pc' = "sleep"
    /\ UNCHANGED <<clock, cycles, arrivals, stops, predictions, stopStats,
                   ts, ts_now, nextId, lookups, env, geojson, entry>>

\* Line 269, then save_state raises; lines 279-280 catch it.
SaveFails ==
    /\ pc = "exported"
    /\ env \in DiskFaultEnvs
    /\ lastUpdated' = <<clock>>
    /\ disk' \in DiskAfterFailedSave(disk)
    /\ log' = Append(log, "error")
    /\ pc' = "sleep"
    /\ UNCHANGED <<clock, cycles, arrivals, stops, predictions, stopStats,
                   ts, ts_now, nextId, lookups, env, geojson, entry>>

\* Line 281, then the next iteration of the loop of line 275.
Sleep ==
    /\ pc = "sleep"
    /\ cycles < MaxCycles
    /\ \E d \in env.deltas : d >= POLL_SECONDS /\ clock' = clock + d
    /\ cycles' = cycles + 1
    /\ pc' = "fetch"
    /\ UNCHANGED <<arrivals, stops, predictions, stopStats, lastUpdated,
                   ts, ts_now, nextId, lookups, disk, env,
                   geojson, log, entry>>

Next ==
    \/ FetchArrivals
    \/ FetchFails
    \/ EnsureStopMetadata
    \/ UpdatePredictions
    \/ MatchArrivals
    \/ ReapPhantoms
    \/ ExportGeojson
    \/ ExportFails
    \/ SaveState
    \/ SaveFails
    \/ Sleep

Spec == Init /\ [][Next]_vars

-----------------------------------------------------------------------------
(* Vocabulary of the properties *)

\* The ledger as a set of (stop, prediction) entries.
Entries(preds) ==
    UNION {{[stop |-> s, p |-> preds[s][k]] : k \in 1..Len(preds[s])} :
              s \in DOMAIN preds}

Ids(preds) == {e.p.id : e \in Entries(preds)}

\* Lifecycle status, as the matched and phantom flags encode it.
IsOpen(p) == ~p.matched
IsMatched(p) == p.matched /\ ~p.phantom
IsPhantom(p) == p.matched /\ p.phantom

Samples(stats, s) == IF s \in DOMAIN stats THEN stats[s].samples ELSE 0
Phantoms(stats, s) == IF s \in DOMAIN stats THEN stats[s].phantoms ELSE 0

\* Ids of the predictions of stop s that go from Open to Matched / Phantom
\* in the step.
NewlyMatched(s) ==
    {e.p.id : e \in {x \in Entries(predictions) : x.stop = s /\ IsOpen(x.p)}}
    \cap {e.p.id : e \in {x \in Entries(predictions') : IsMatched(x.p)}}

NewlyPhantom(s) ==
    {e.p.id : e \in {x \in Entries(predictions) : x.stop = s /\ IsOpen(x.p)}}
    \cap {e.p.id : e \in {x \in Entries(predictions') : IsPhantom(x.p)}}

\* The feed's records for (s, v) that carry a time-to-station, and the
\* time-to-station of the last of them: the current snapshot's value.
Sightings(arr, s, v) ==
    {i \in 1..Len(arr) :
        /\ arr[i].naptanId = <<s>>
        /\ arr[i].vehicleId = <<v>>
        /\ arr[i].timeToStation # <<>>}

ObservedTts(arr, s, v) ==
    LET last == CHOOSE i \in Sightings(arr, s, v) :
                    \A j \in Sightings(arr, s, v) : j <= i
    IN arr[last].timeToStation[1]

ObservedArriving(arr, s, v) ==
    Sightings(arr, s, v) # {} /\ ObservedTts(arr, s, v) <= ARRIVAL_TTS_SEC

MatcherStep == pc = "ingested" /\ pc' = "matched"
ReaperStep == pc = "matched" /\ pc' = "scored"
IngestStep == pc = "ensured" /\ pc' = "ingested"

-----------------------------------------------------------------------------
-----------------------------------------------------------------------------
(* C2: where a stop holds two or more Open predictions for a vehicle, a   *)
(* matcher step whose snapshot shows the vehicle arriving (timeToStation  *)
(* <= the threshold in the feed's last record for the pair) matches the   *)
(* first of them in insertion order, which has the earliest createdAtTs;  *)
(* all the later ones are Open and unchanged after the step.              *)
C2_OldestFirst ==
    [][MatcherStep =>
        \A s \in DOMAIN predictions :
          \A v \in {predictions[s][k].vehicleId : k \in 1..Len(predictions[s])} :
            LET ps == predictions[s]
                open == {k \in 1..Len(ps) :
                            IsOpen(ps[k]) /\ ps[k].vehicleId = v}
                first == CHOOSE k \in open : \A j \in open : k <= j
            IN Cardinality(open) >= 2 =>
                  /\ ObservedArriving(arrivals, s, v)
                        => IsMatched(predictions'[s][first])
                  /\ \A j \in open :
                        /\ ps[first].predictionTs <= ps[j].predictionTs
                        /\ j # first => predictions'[s][j] = ps[j]]_vars

\* The matcher has just matched a prediction of an arriving vehicle and
\* left a younger Open prediction of the same vehicle behind it.
C2_Witness ==
    /\ pc = "matched"
    /\ \E s \in DOMAIN predictions :
         \E i, j \in 1..Len(predictions[s]) :
            /\ i < j
            /\ predictions[s][i].vehicleId = predictions[s][j].vehicleId
            /\ ObservedArriving(arrivals, s, predictions[s][i].vehicleId)
            /\ IsMatched(predictions[s][i])
            /\ predictions[s][i].actualArrivalTs[1] >= ts_now
            /\ predictions[s][i].predictionTs < predictions[s][j].predictionTs
            /\ IsOpen(predictions[s][j])

-----------------------------------------------------------------------------
-----------------------------------------------------------------------------
(* C4: after the ingest-and-evict step every prediction in the ledger has *)
(* age now - createdAtTs <= maxAgeSec, whatever its status; a prediction  *)
(* of age exactly maxAgeSec is kept; no stop is left with an empty        *)
(* sequence.  now is update_predictions' clock reading.                   *)
C4_NoneOlderThanMaxAge ==
    [][IngestStep =>
        /\ \A e \in Entries(predictions') :
              ts' - e.p.predictionTs <= PREDICTION_MAX_AGE_SEC
        /\ \A e \in Entries(predictions) :
              ts' - e.p.predictionTs = PREDICTION_MAX_AGE_SEC
                  => e \in Entries(predictions')
        /\ \A s \in DOMAIN predictions' : predictions'[s] # <<>>]_vars

\* After the step the ledger holds a terminal and an Open prediction of
\* age exactly maxAgeSec.
C4_Witness ==
    /\ pc = "ingested"
    /\ \E e, f \in Entries(predictions) :
          /\ ts - e.p.predictionTs = PREDICTION_MAX_AGE_SEC
          /\ ts - f.p.predictionTs = PREDICTION_MAX_AGE_SEC
          /\ IsMatched(e.p)
          /\ IsOpen(f.p)

-----------------------------------------------------------------------------
(* C5: the reaper step turns a prediction into a Phantom exactly when it  *)
(* is Open and now > expectedArrivalTs + graceSec (at now =               *)
(* expectedArrivalTs + graceSec it stays Open) and changes no other       *)
(* prediction; the stop's phantomCount grows by the number of predictions *)
(* so turned; and when the cycle ends no Open prediction is overdue by    *)
(* more than the grace period.  now is the cycle's ts_now.                *)
C5_ReaperExact ==
    [][/\ ReaperStep =>
            /\ DOMAIN predictions' = DOMAIN predictions
            /\ \A s \in DOMAIN predictions :
                  /\ Len(predictions'[s]) = Len(predictions[s])
                  /\ \A k \in 1..Len(predictions[s]) :
                        LET p == predictions[s][k]
                            q == predictions'[s][k]
                        IN IF IsOpen(p) /\ ts_now >
                                  p.expectedArrivalTs + PHANTOM_GRACE_SEC
                           THEN IsPhantom(q) /\ q.id = p.id
                           ELSE q = p
            /\ \A s \in StopIds :
                  Phantoms(stopStats', s) - Phantoms(stopStats, s)
                      = Cardinality(NewlyPhantom(s))
       /\ pc' \in {"scored", "exported", "sleep"} /\ pc # "fetch" =>
            \A e \in Entries(predictions') :
               IsOpen(e.p) =>
                  ts_now' <= e.p.expectedArrivalTs + PHANTOM_GRACE_SEC]_vars

\* The reaper has run at the instant one Open prediction's grace period
\* ends and one second after another's: the first is still Open, the
\* second is a Phantom and counted.
C5_Witness ==
    /\ pc = "scored"
    /\ \E e, f \in Entries(predictions) :
          /\ e.stop = f.stop
          /\ IsOpen(e.p)
          /\ ts_now = e.p.expectedArrivalTs + PHANTOM_GRACE_SEC
          /\ IsPhantom(f.p)
          /\ ts_now = f.p.expectedArrivalTs + PHANTOM_GRACE_SEC + 1
          /\ Phantoms(stopStats, e.stop) = 1

-----------------------------------------------------------------------------
(* C6: no prediction is ever both Matched (carrying a driftSec) and       *)
(* Phantom: the reaper, which runs after the matcher, passes over a       *)
(* prediction matched in this or an earlier cycle even when it is overdue *)
(* by more than the grace period.                                         *)
C6_NeverMatchedAndPhantom ==
    \A e \in Entries(predictions) :
       /\ ~(e.p.driftSec # <<>> /\ e.p.phantom)
       /\ ~(e.p.actualArrivalTs # <<>> /\ e.p.phantom)

\* The reaper has run over a prediction that was matched in this cycle
\* while overdue by more than the grace period.
C6_Witness ==
    /\ pc = "scored"
    /\ \E e \in Entries(predictions) :
          /\ IsMatched(e.p)
          /\ e.p.actualArrivalTs[1] >= ts_now
          /\ ts_now > e.p.expectedArrivalTs + PHANTOM_GRACE_SEC

-----------------------------------------------------------------------------
(* C7, as stated: a prediction that is never matched becomes a Phantom    *)
(* before it leaves the ledger, so no step removes a prediction that is   *)
(* still Open.                                                            *)
C7_OpenNeverEvicted ==
    [][\A e \in Entries(predictions) :
          IsOpen(e.p) => e.p.id \in Ids(predictions')]_vars

(* C7, amended: a prediction leaves the ledger while still Open only in   *)
(* the ingest-and-evict step, only at an age above maxAgeSec, and only if *)
(* the last reaper run (hence every reaper run since its creation) had    *)
(* now <= expectedArrivalTs + graceSec, i.e. never found it overdue.      *)
C7_OpenEvictedOnlyIfNeverOverdue ==
    [][\A e \in Entries(predictions) :
          (IsOpen(e.p) /\ e.p.id \notin Ids(predictions')) =>
             /\ IngestStep
             /\ ts' - e.p.predictionTs > PREDICTION_MAX_AGE_SEC
             /\ ts_now <= e.p.expectedArrivalTs + PHANTOM_GRACE_SEC]_vars

\* The ingest-and-evict step has removed a prediction that the last
\* completed cycle left Open, and that is not overdue even now.
C7_Witness ==
    /\ pc = "ingested"
    /\ disk # <<>>
    /\ \E e \in Entries(disk[1].predictions) :
          /\ IsOpen(e.p)
          /\ e.p.id \notin Ids(predictions)
          /\ ts - e.p.predictionTs > PREDICTION_MAX_AGE_SEC
          /\ ts <= e.p.expectedArrivalTs + PHANTOM_GRACE_SEC

-----------------------------------------------------------------------------
(* C8: the ingest step appends, for every feed record with stop id,       *)
(* vehicle id, time-to-station and expected arrival present, exactly one  *)
(* new Open prediction with createdAtTs = now at the end of its stop's    *)
(* sequence, in feed order, whether or not the vehicle already has an     *)
(* Open prediction there; what precedes the new ones are predictions the  *)
(* stop had before, unchanged and in their order.                         *)
C8_IngestAppendsOnePerObservation ==
    [][IngestStep =>
        \A s \in StopIds :
          LET wf == SelectSeq(arrivals,
                      LAMBDA a : /\ a.naptanId = <<s>>
                                 /\ a.vehicleId # <<>>
                                 /\ a.timeToStation # <<>>
                                 /\ a.expectedArrival # <<>>)
              old == IF s \in DOMAIN predictions THEN predictions[s] ELSE <<>>
              new == IF s \in DOMAIN predictions' THEN predictions'[s]
                     ELSE <<>>
              n == Len(new) - Len(wf)
          IN /\ n >= 0
             /\ \A j \in 1..Len(wf) :
                   LET q == new[n + j] IN
                   /\ q.vehicleId = wf[j].vehicleId[1]
                   /\ q.predictionTs = ts'
                   /\ q.timeToStation = wf[j].timeToStation[1]
                   /\ q.expectedArrivalTs = wf[j].expectedArrival[1]
                   /\ IsOpen(q) /\ ~q.phantom
                   /\ q.actualArrivalTs = <<>> /\ q.driftSec = <<>>
                   /\ q.id \notin Ids(predictions)
                   /\ \A i \in 1..Len(new) : new[i].id = q.id => i = n + j
             /\ n >= 0 =>
                   SubSeq(new, 1, n) =
                      SelectSeq(old, LAMBDA p :
                                   \E i \in 1..n : new[i].id = p.id)]_vars

\* The step has appended a prediction for a vehicle behind an Open
\* prediction of an earlier cycle for the same vehicle at the same stop.
C8_Witness ==
    /\ pc = "ingested"
    /\ \E s \in DOMAIN predictions :
         \E i, j \in 1..Len(predictions[s]) :
            /\ i < j
            /\ predictions[s][i].vehicleId = predictions[s][j].vehicleId
            /\ IsOpen(predictions[s][i])
            /\ predictions[s][i].predictionTs < ts
            /\ IsOpen(predictions[s][j])
            /\ predictions[s][j].predictionTs = ts

-----------------------------------------------------------------------------
(* C9: in a matcher step at most one prediction per (stop, vehicle) goes  *)
(* from Open to Matched, and a stop's sampleCount grows by at most the    *)
(* number of vehicles the feed shows at that stop, however many records   *)
(* the feed holds for a (stop, vehicle).                                  *)
C9_OneMatchPerPair ==
    [][MatcherStep =>
        \A s \in StopIds :
          LET seen == {v \in {e.p.vehicleId : e \in Entries(predictions)} :
                          Sightings(arrivals, s, v) # {}}
          IN /\ \A v \in {e.p.vehicleId : e \in Entries(predictions)} :
                   Cardinality({e \in Entries(predictions') :
                                   /\ e.p.id \in NewlyMatched(s)
                                   /\ e.p.vehicleId = v}) <= 1
             /\ Samples(stopStats', s) - Samples(stopStats, s)
                   <= Cardinality(seen)]_vars

\* The feed held two arriving records for one (stop, vehicle); the matcher
\* has matched one of that pair's Open predictions and left another Open.
C9_Witness ==
    /\ pc = "matched"
    /\ Len(arrivals) >= 2
    /\ arrivals[1].naptanId = arrivals[2].naptanId
    /\ arrivals[1].vehicleId = arrivals[2].vehicleId
    /\ arrivals[1].timeToStation[1] <= ARRIVAL_TTS_SEC
    /\ arrivals[2].timeToStation[1] <= ARRIVAL_TTS_SEC
    /\ \E e, f \in Entries(predictions) :
          /\ e.stop = arrivals[1].naptanId[1] /\ f.stop = e.stop
          /\ e.p.vehicleId = arrivals[1].vehicleId[1]
          /\ f.p.vehicleId = e.p.vehicleId
          /\ IsMatched(e.p) /\ e.p.actualArrivalTs[1] >= ts_now
          /\ IsOpen(f.p)
          /\ Samples(stopStats, e.stop) = 1

-----------------------------------------------------------------------------
(* C10, as stated: a stop has a StopStats entry only if a match or a      *)
(* phantom has been recorded for it, so every entry has sampleCount +     *)
(* phantomCount >= 1.                                                     *)
C10_StatsOnlyAfterEvent ==
    \A s \in DOMAIN stopStats :
       stopStats[s].samples + stopStats[s].phantoms >= 1

(* C10, amended: a stop gets its StopStats entry at its first match or at *)
(* the first reaper pass that finds the stop in the ledger, whichever     *)
(* comes first: the reaper creates an entry for every stop that holds a   *)
(* prediction, reaped or not, so an entry may have sampleCount +          *)
(* phantomCount = 0.                                                      *)
C10_StatsCreatedByMatchOrReaperPass ==
    [][/\ \A s \in DOMAIN stopStats' \ DOMAIN stopStats :
             \/ /\ MatcherStep
                /\ NewlyMatched(s) # {}
                /\ stopStats'[s].samples >= 1
             \/ /\ ReaperStep
                /\ s \in DOMAIN predictions
                /\ stopStats'[s].samples = 0
                /\ stopStats'[s].phantoms = Cardinality(NewlyPhantom(s))
       /\ ReaperStep => DOMAIN predictions \subseteq DOMAIN stopStats']_vars

\* The reaper has passed over a stop whose predictions are all Open and
\* not overdue, and the stop has an entry with no sample and no phantom.
C10_Witness ==
    /\ pc = "scored"
    /\ \E s \in DOMAIN stopStats :
          /\ stopStats[s].samples + stopStats[s].phantoms = 0
          /\ s \in DOMAIN predictions
          /\ \A k \in 1..Len(predictions[s]) : IsOpen(predictions[s][k])

-----------------------------------------------------------------------------
(* C11: in every step, of a cycle that completes or of one that fails, a  *)
(* stop that has a StopStats entry keeps it, and neither its sample count *)
(* nor its phantom count decreases; an entry whose sample count stays the *)
(* same keeps its drift sum.  This includes the steps that evict all the  *)
(* predictions of the stop.                                               *)
C11_CountersOnlyAccumulate ==
    [][\A s \in DOMAIN stopStats :
          /\ s \in DOMAIN stopStats'
          /\ stopStats'[s].samples >= stopStats[s].samples
          /\ stopStats'[s].phantoms >= stopStats[s].phantoms
          /\ stopStats'[s].samples = stopStats[s].samples
                => stopStats'[s].sumDriftSec = stopStats[s].sumDriftSec]_vars

\* A stop whose predictions have all been evicted still has its counted
\* sample after the reaper has passed.
C11_Witness ==
    /\ pc = "scored"
    /\ \E s \in DOMAIN stopStats :
          /\ s \notin DOMAIN predictions
          /\ stopStats[s].samples >= 1

-----------------------------------------------------------------------------
(* C12: for every stop, with the StopStats entry it has or with the zero  *)
(* default when it has none, the two divisions of the export have a       *)
(* non-zero divisor; the mean drift is driftSecSum / sampleCount when     *)
(* sampleCount > 0 and 0 otherwise; the phantom rate is phantomCount /    *)
(* (sampleCount + phantomCount) when that sum is > 0 and 0 otherwise, and *)
(* lies in [0, 1].  The features written by the export carry these        *)
(* values.  Quotients are compared by cross-multiplication.               *)
C12_DerivedMetricsDefined ==
    \A s \in StopIds :
          LET st == Get(stopStats, s, NoStats)
              b == BiasSec(st)
              r == PhantomRate(st)
              events == st.samples + st.phantoms
          IN /\ b.den # 0 /\ r.den # 0
             /\ IF st.samples > 0
                THEN b.num * st.samples = st.sumDriftSec * b.den
                ELSE b.num = 0
             /\ IF events > 0
                THEN r.num * events = st.phantoms * r.den
                ELSE r.num = 0
             /\ r.den > 0 /\ 0 <= r.num /\ r.num <= r.den
             /\ (pc = "exported" /\ s \in Exported(stops)) =>
                   /\ geojson # <<>> /\ s \in DOMAIN geojson[1]
                   /\ geojson[1][s].bias_sec = b
                   /\ geojson[1][s].phantom_rate = r
                   /\ geojson[1][s].samples = st.samples

\* The export has written a feature for a stop that has no StopStats entry
\* and one for a stop with a counted sample.
C12_Witness ==
    /\ pc = "exported"
    /\ \E s, t \in Exported(stops) :
          /\ s \notin DOMAIN stopStats
          /\ geojson[1][s].phantom_rate.num = 0
          /\ t \in DOMAIN stopStats
          /\ stopStats[t].samples > 0
          /\ geojson[1][t].samples = stopStats[t].samples

-----------------------------------------------------------------------------
(* C13: a cycle whose feed fetch fails (the step from the fetch that does *)
(* not deliver a feed) changes nothing: stops, predictions, stopStats and *)
(* lastUpdated are as before, the state file and the export file are not  *)
(* written, the error is reported and the driver goes to its sleep, from  *)
(* which the next cycle starts.                                           *)
C13_FetchFailureChangesNothing ==
    [][(pc = "fetch" /\ pc' # "fetched") =>
          /\ UNCHANGED <<stops, predictions, stopStats, lastUpdated, disk,
                         geojson, nextId>>
          /\ log' = Append(log, "error")
          /\ pc' = "sleep"]_vars

\* The first cycle's fetch failed, nothing was written, and the second
\* cycle has fetched its feed.
C13_Witness ==
    /\ pc = "fetched"
    /\ cycles = 2
    /\ log = <<"error">>
    /\ Len(arrivals) > 0
    /\ stops = EmptyDict /\ predictions = EmptyDict /\ stopStats = EmptyDict
    /\ lastUpdated = <<>> /\ disk = <<>> /\ geojson = <<>>

-----------------------------------------------------------------------------
\* The feed without the records that lack a stop id, a vehicle id, a time
\* to station or an expected arrival.
WellFormedOnly(arr) == SelectSeq(arr, Ingestible)

(* C14, as stated: a feed record that lacks one of the four fields is     *)
(* skipped, so the ingest step and the matcher step of a cycle leave the  *)
(* ledger and the statistics exactly as they would with the feed's        *)
(* well-formed records alone: the malformed record creates no prediction, *)
(* matches none and changes no statistic.                                 *)
C14_MalformedAsIfAbsent ==
    [][/\ IngestStep =>
             /\ predictions' =
                   Prune(IngestFrom(predictions, WellFormedOnly(arrivals), 1,
                                    ts', nextId), ts')
             /\ nextId' = nextId + Len(WellFormedOnly(arrivals))
       /\ MatcherStep =>
             <<predictions', stopStats'>> =
                MatchFrom(predictions, stopStats,
                          IndexArrivals(WellFormedOnly(arrivals)), 1,
                          ts_now')]_vars

-----------------------------------------------------------------------------
EnsureStep == pc = "fetched" /\ pc' = "ensured"

\* The stops the feed's records name.
ObservedStops(arr) ==
    {s \in StopIds : \E i \in 1..Len(arr) : arr[i].naptanId = <<s>>}

\* The stub made from the first record of the feed that names stop s.
StubOf(arr, s) ==
    LET first == CHOOSE i \in 1..Len(arr) :
                    /\ arr[i].naptanId = <<s>>
                    /\ \A j \in 1..(i - 1) : arr[j].naptanId # <<s>>
    IN Stub(arr[first])

Unresolved(sm, s) == ~Resolved(Get(sm, s, <<>>))

(* C15: the stop-metadata step always completes, and for every observed   *)
(* stop that was unresolved before it a lookup is issued, in the first    *)
(* cycle and in every later one; if the stop is still unresolved after    *)
(* the step (every lookup for it failed) its entry is the stub it had, or *)
(* the fresh stub with the feed's hint name, with no coordinates.  In the *)
(* rest of the cycle an unresolved stop is handled like any other: every  *)
(* ingestible record adds a prediction, an arriving vehicle with an Open  *)
(* prediction gets a match and a sample, and every Open prediction past   *)
(* its grace period becomes a phantom.                                    *)
C15_FailedLookupNotFatal ==
    [][/\ pc = "fetched" => pc' = "ensured"
       /\ EnsureStep =>
             \A s \in ObservedStops(arrivals) :
                Unresolved(stops, s) =>
                   /\ lookups'[s] >= 1
                   /\ s \in DOMAIN stops'
                   /\ Unresolved(stops', s) =>
                         stops'[s] = IF s \in DOMAIN stops THEN stops[s]
                                     ELSE <<StubOf(arrivals, s)>>
       /\ \A s \in StopIds :
             Unresolved(stops, s) =>
                /\ IngestStep =>
                      Len(Get(predictions', s, <<>>)) >=
                         Cardinality({i \in 1..Len(arrivals) :
                                         /\ Ingestible(arrivals[i])
                                         /\ arrivals[i].naptanId = <<s>>})
                /\ MatcherStep =>
                      \A e \in Entries(predictions) :
                         (/\ e.stop = s /\ IsOpen(e.p)
                          /\ ObservedArriving(arrivals, s, e.p.vehicleId))
                            => /\ NewlyMatched(s) # {}
                               /\ Samples(stopStats', s) >
                                     Samples(stopStats, s)
                /\ ReaperStep =>
                      \A e \in Entries(predictions) :
                         (e.stop = s /\ IsOpen(e.p) /\ Overdue(e.p, ts_now))
                            => /\ e.p.id \in NewlyPhantom(s)
                               /\ Phantoms(stopStats', s) >
                                     Phantoms(stopStats, s)]_vars

\* In the second cycle the lookups for two stubs have failed again; one of
\* the stops has a matched prediction and the other a phantom.
C15_Witness ==
    /\ pc = "scored"
    /\ cycles = 2
    /\ \E s, t \in DOMAIN stops :
          /\ Unresolved(stops, s) /\ Unresolved(stops, t)
          /\ stops[s][1].name = "Station" /\ stops[t][1].name = "Station"
          /\ lookups[s] >= 1 /\ lookups[t] >= 1
          /\ s \in DOMAIN entry.stops /\ t \in DOMAIN entry.stops
          /\ \E e \in Entries(predictions) :
                e.stop = s /\ IsMatched(e.p) /\ e.p.predictionTs = ts
          /\ \E e \in Entries(predictions) : e.stop = t /\ IsPhantom(e.p)

-----------------------------------------------------------------------------
(* C16, as stated: in any one cycle at most one stop lookup is issued for *)
(* a stop, however many records of the feed name it and whether or not    *)
(* the lookup succeeds.                                                   *)
C16_OneLookupPerStopPerCycle == \A s \in StopIds : lookups[s] <= 1

-----------------------------------------------------------------------------
\* Stop s has an entry with both coordinates.
HasCoordinates(sm, s) ==
    s \in DOMAIN sm /\ sm[s][1].lat # <<>> /\ sm[s][1].lon # <<>>

(* C17: no step removes a stop's entry, and once the entry has both       *)
(* coordinates no step changes its name or coordinates or issues a lookup *)
(* for it (the count of lookups for the stop never goes up again), in the *)
(* cycle that resolved it and in every later one.                         *)
C17_ResolvedStopIsFinal ==
    [][\A s \in DOMAIN stops :
          /\ s \in DOMAIN stops'
          /\ HasCoordinates(stops, s) =>
                /\ stops'[s] = stops[s]
                /\ lookups'[s] <= lookups[s]]_vars

\* A stop resolved in the first cycle is named by the second cycle's feed,
\* and the stop-metadata step has left it alone without a lookup.
C17_Witness ==
    /\ pc = "ensured"
    /\ cycles = 2
    /\ \E s \in ObservedStops(arrivals) :
          /\ HasCoordinates(entry.stops, s)
          /\ stops[s] = entry.stops[s]
          /\ lookups[s] = 0

-----------------------------------------------------------------------------
\* The step in which a cycle that had fetched its feed ends with an error.
AbortAfterFetch ==
    /\ pc \in {"fetched", "ensured", "ingested", "matched", "scored",
               "exported"}
    /\ pc' = "sleep"
    /\ log' = Append(log, "error")

(* C18, as stated: when a cycle aborts after its fetch succeeded, the     *)
(* stops, predictions and stopStats carried into the next cycle are those *)
(* the aborted cycle started with.                                        *)
C18_AbortRestoresMemory ==
    [][AbortAfterFetch =>
          /\ stops' = entry.stops
          /\ predictions' = entry.predictions
          /\ stopStats' = entry.stopStats]_vars

(* C18, amended: nothing is rolled back.  The step that aborts a cycle    *)
(* after its fetch leaves stops, predictions and stopStats as the cycle's *)
(* earlier steps made them, and these are what the next cycle works on.   *)
(* The state file changes only in save_state, the cycle's last step: a    *)
(* save that succeeds writes the collections as they are in memory then,  *)
(* with the effects of earlier aborted cycles in them, and a save that    *)
(* fails leaves the old file or a truncated one.                          *)
C18_AbortKeepsMutations ==
    [][/\ AbortAfterFetch => UNCHANGED <<stops, predictions, stopStats>>
       /\ disk' # disk =>
             /\ pc = "exported"
             /\ \/ /\ log' = Append(log, "wrote")
                   /\ disk' = <<[lastUpdated |-> lastUpdated',
                                 stops |-> stops,
                                 predictions |-> predictions,
                                 stopStats |-> stopStats]>>
                \/ /\ log' = Append(log, "error")
                   /\ disk' = <<>>]_vars

\* The first cycle ingested and matched a prediction and then aborted; the
\* second cycle completed, and the state file holds that prediction and
\* its sample.
C18_Witness ==
    /\ pc = "sleep"
    /\ log = <<"error", "wrote">>
    /\ disk # <<>>
    /\ \E e \in Entries(disk[1].predictions) :
          /\ e.p.predictionTs = 0
          /\ IsMatched(e.p)
          /\ e.p.actualArrivalTs[1] < clock
          /\ Samples(disk[1].stopStats, e.stop) >= 1

-----------------------------------------------------------------------------
\* The predictions of stop s in the ledger that are Matched / Phantom.
MatchedAt(preds, s) ==
    {e.p.id : e \in {x \in Entries(preds) : x.stop = s /\ IsMatched(x.p)}}
PhantomAt(preds, s) ==
    {e.p.id : e \in {x \in Entries(preds) : x.stop = s /\ IsPhantom(x.p)}}

(* C19: in every state and for every stop, the Matched predictions in the *)
(* ledger are no more than the stop's sample count and the Phantom ones   *)
(* no more than its phantom count; and in every step the sample count     *)
(* grows by exactly the number of predictions of the stop that go from    *)
(* Open to Matched and the phantom count by exactly the number that go    *)
(* from Open to Phantom, so a step that only evicts changes neither.      *)
C19_EachPredictionCountedOnce ==
    /\ [](\A s \in StopIds :
            /\ Cardinality(MatchedAt(predictions, s)) <=
                  Samples(stopStats, s)
            /\ Cardinality(PhantomAt(predictions, s)) <=
                  Phantoms(stopStats, s))
    /\ [][\A s \in StopIds :
             /\ Samples(stopStats', s) =
                   Samples(stopStats, s) + Cardinality(NewlyMatched(s))
             /\ Phantoms(stopStats', s) =
                   Phantoms(stopStats, s) + Cardinality(NewlyPhantom(s))]_vars

\* A stop has two counted samples; the prediction of the first has been
\* evicted and the prediction of the second is in the ledger.
C19_Witness ==
    \E s \in DOMAIN stopStats :
       /\ stopStats[s].samples = 2
       /\ Cardinality(MatchedAt(predictions, s)) = 1

-----------------------------------------------------------------------------
\* The Open predictions of (s, v) made by this cycle's ingest / by earlier
\* cycles, and the predictions of (s, v) that the step matches.
FreshOpen(s, v) ==
    {e \in Entries(predictions) :
        /\ e.stop = s /\ e.p.vehicleId = v /\ IsOpen(e.p)
        /\ e.p.predictionTs = ts}
OlderOpen(s, v) ==
    {e \in Entries(predictions) :
        /\ e.stop = s /\ e.p.vehicleId = v /\ IsOpen(e.p)
        /\ e.p.predictionTs < ts}
Hits(s, v) ==
    {e \in Entries(predictions') :
        e.stop = s /\ e.p.vehicleId = v /\ e.p.id \in NewlyMatched(s)}

(* C20, as stated: in the matcher step, every well-formed record of the   *)
(* feed with timeToStation <= the threshold has a match made for its      *)
(* (stop, vehicle); when the stop holds no older Open prediction of the   *)
(* vehicle, the matched prediction is the one made from that record, and  *)
(* its driftSec is 0 when the record's timeToStation is >= 0.             *)
C20_ArrivingObservationSelfMatches ==
    [][MatcherStep =>
          \A i \in 1..Len(arrivals) :
             (/\ Ingestible(arrivals[i])
              /\ arrivals[i].timeToStation[1] <= ARRIVAL_TTS_SEC) =>
                LET s == arrivals[i].naptanId[1]
                    v == arrivals[i].vehicleId[1]
                    tts == arrivals[i].timeToStation[1]
                IN /\ Hits(s, v) # {}
                   /\ OlderOpen(s, v) = {} =>
                         \E m \in Hits(s, v) :
                            /\ m.p.predictionTs = ts
                            /\ m.p.timeToStation = tts
                            /\ tts >= 0 => m.p.driftSec = <<0>>]_vars

(* C20, amended: in the matcher step, every (stop, vehicle) for which the *)
(* feed has a well-formed record and whose snapshot value (the            *)
(* timeToStation of the feed's last record for the pair) is <= the        *)
(* threshold gets exactly one match: a candidate always exists.  When the *)
(* stop holds no older Open prediction of the vehicle, the matched one is *)
(* the first prediction this cycle's ingest made for the pair, and its    *)
(* driftSec is (ingest's clock reading - matcher's clock reading) + (its  *)
(* timeToStation - max(0, snapshot value)); with a single record for the  *)
(* pair and timeToStation >= 0 that is minus the time between the two     *)
(* clock readings, 0 only when both fall in the same second.              *)
C20_ArrivingPairMatchesOnce ==
    [][MatcherStep =>
          \A i \in 1..Len(arrivals) :
             (/\ Ingestible(arrivals[i])
              /\ ObservedArriving(arrivals, arrivals[i].naptanId[1],
                                  arrivals[i].vehicleId[1])) =>
                LET s == arrivals[i].naptanId[1]
                    v == arrivals[i].vehicleId[1]
                    seen == ObservedTts(arrivals, s, v)
                    arrived == IF seen > 0 THEN seen ELSE 0
                IN /\ Cardinality(Hits(s, v)) = 1
                   /\ OlderOpen(s, v) = {} =>
                         \A m \in Hits(s, v) :
                            /\ m.p.predictionTs = ts
                            /\ \A f \in FreshOpen(s, v) : m.p.id <= f.p.id
                            /\ m.p.driftSec =
                                  <<(ts - ts_now') +
                                    (m.p.timeToStation - arrived)>>
                            /\ (/\ Cardinality(Sightings(arrivals, s, v)) = 1
                                /\ seen >= 0) =>
                                  /\ m.p.driftSec = <<ts - ts_now'>>
                                  /\ m.p.driftSec[1] <= 0]_vars

\* A prediction has been matched by the record it was made from, a second
\* after it was made: its driftSec is -1.
C20_Witness ==
    /\ pc = "matched"
    /\ ts_now = ts + 1
    /\ \E i \in 1..Len(arrivals) :
          /\ Ingestible(arrivals[i])
          /\ arrivals[i].timeToStation[1] >= 0
          /\ arrivals[i].timeToStation[1] <= ARRIVAL_TTS_SEC
          /\ \E e \in Entries(predictions) :
                /\ e.stop = arrivals[i].naptanId[1]
                /\ e.p.vehicleId = arrivals[i].vehicleId[1]
                /\ e.p.predictionTs = ts
                /\ IsMatched(e.p)
                /\ e.p.driftSec = <<-1>>

=============================================================================
